---- MODULE Spec2Model ----
(***************************************************************************)
(* Instruction selection and block construction of the AGX shader          *)
(* compiler (src/asahi/compiler/agx_compile.c, shipped together with       *)
(* agx_compile.h in one file).                                             *)
(*                                                                         *)
(* One compilation, agx_compile_shader_nir, is modelled as a state         *)
(* machine.  The source program is immutable while it is walked, so it is  *)
(* revealed as the walk consumes it: `body` is the part of the function's  *)
(* control-flow list that emit_cf_list has visited so far.                 *)
(*                                                                         *)
(* assert() and unreachable() end the compilation (pc = "fatal"): this is  *)
(* the behaviour of a build with assertions enabled, which is what the     *)
(* specification calls a fatal error.                                      *)
(***************************************************************************)
EXTENDS Integers, Sequences, FiniteSets, TLC

\* ---------------------------------------------------------------- bounds

\* Source instructions in one walked function body.
MaxInstrs == 3

\* Control-flow nodes in one walked function body.
MaxNodes == 2

\* ------------------------------------------------------ program constants

\* gl_frag_result values compared at agx_emit_fragment_out.
FRAG_RESULT_COLOR == 2

FRAG_RESULT_DATA0 == 4

\* Number of trap instructions after the stop.
NumTraps == 8

\* The two writeout immediates.
WRITEOUT_A == 49664

WRITEOUT_B == 12

\* impl->ssa_alloc of the walked function: every SSA index is below it.
SsaAlloc == 8

\* The mask field of a freshly built instruction (the builder allocates it
\* zeroed); for ld_vary it stands for the full mask.
AGX_MASK_DEFAULT == 0

Stages == {"MESA_SHADER_VERTEX", "MESA_SHADER_FRAGMENT", "MESA_SHADER_COMPUTE"}

\* ---------------------------------------------------- target IR operands

agx_null == [type |-> "null", value |-> 0, size |-> 0]

agx_get_index(v, size) == [type |-> "ssa", value |-> v, size |-> size]

agx_immediate(imm) == [type |-> "imm", value |-> imm, size |-> 32]

agx_size_for_bits(bits) == bits

\* A target pseudo-instruction: opcode, destination, four sources and the
\* opcode-specific immediate fields.
AgxInstr(op, dest, s0, s1, s2, s3, imm, mask, format) ==
    [op |-> op, dest |-> dest, src |-> <<s0, s1, s2, s3>>,
     imm |-> imm, mask |-> mask, format |-> format]

agx_mov_imm_to(dest, imm) ==
    AgxInstr("mov_imm", dest, agx_null, agx_null, agx_null, agx_null,
             imm, AGX_MASK_DEFAULT, 0)

agx_ld_vary_to(dest, s0) ==
    AgxInstr("ld_vary", dest, s0, agx_null, agx_null, agx_null,
             0, AGX_MASK_DEFAULT, 0)

agx_st_vary(s0, s1) ==
    AgxInstr("st_vary", agx_null, s0, s1, agx_null, agx_null,
             0, AGX_MASK_DEFAULT, 0)

agx_writeout(imm) ==
    AgxInstr("writeout", agx_null, agx_null, agx_null, agx_null, agx_null,
             imm, AGX_MASK_DEFAULT, 0)

agx_blend(s0, format) ==
    AgxInstr("blend", agx_null, s0, agx_null, agx_null, agx_null,
             0, AGX_MASK_DEFAULT, format)

agx_p_extract_to(dest, s0, channel) ==
    AgxInstr("p_extract", dest, s0, agx_null, agx_null, agx_null,
             channel, AGX_MASK_DEFAULT, 0)

agx_p_combine_to(dest, s0, s1, s2, s3) ==
    AgxInstr("p_combine", dest, s0, s1, s2, s3, 0, AGX_MASK_DEFAULT, 0)

agx_stop ==
    AgxInstr("stop", agx_null, agx_null, agx_null, agx_null, agx_null,
             0, AGX_MASK_DEFAULT, 0)

agx_trap ==
    AgxInstr("trap", agx_null, agx_null, agx_null, agx_null, agx_null,
             0, AGX_MASK_DEFAULT, 0)

\* --------------------------------------------------------- source programs

\* An SSA definition or source as the selector reads it.
NirDef(index, bit_size, num_components) ==
    [index |-> index, bit_size |-> bit_size, num_components |-> num_components]

LoadConst(bit_size, num_components, raw) ==
    [type |-> "load_const",
     def |-> NirDef(0, bit_size, num_components),
     value |-> [c \in 1..num_components |-> raw + (c - 1)]]

\* An intrinsic instruction: the fields the selector reads.  parent is the
\* intrinsic that defines src[0] ("none" when src[0] is no intrinsic);
\* offset_const / offset describe the source nir_get_io_offset_src returns.
Intrinsic(name, has_dest, num_components, src0, parent, offset_const, offset, base, component, write_mask) ==
    [type |-> "intrinsic", intrinsic |-> name, has_dest |-> has_dest,
     num_components |-> num_components,
     dest |-> NirDef(0, 32, num_components),
     src0 |-> NirDef(src0, 32, num_components),
     parent |-> parent, offset_const |-> offset_const, offset |-> offset,
     base |-> base, component |-> component, write_mask |-> write_mask]

Barycentrics ==
    {"load_barycentric_pixel", "load_barycentric_centroid",
     "load_barycentric_sample", "load_barycentric_at_sample",
     "load_barycentric_at_offset"}

LoadBarycentric(name) ==
    Intrinsic(name, TRUE, 2, 0, "none", TRUE, 0, 0, 0, 0)

LoadInterpolated(base, offset_const, offset, comps, parent) ==
    Intrinsic("load_interpolated_input", TRUE, comps, 0, parent,
              offset_const, offset, base, 0, 0)

StoreOutput(base, component, offset_const, offset, write_mask, src0) ==
    Intrinsic("store_output", FALSE, 1, src0, "none",
              offset_const, offset, base, component, write_mask)

AluSrc(index, bit_size, num_components, channel, negate, abs) ==
    [src |-> NirDef(index, bit_size, num_components),
     swizzle |-> <<channel>>, negate |-> negate, abs |-> abs]

Alu(op, bit_size, num_components, srcs) ==
    [type |-> "alu", op |-> op,
     dest |-> NirDef(0, bit_size, num_components), src |-> srcs]

\* nir_op_infos[op].num_inputs
num_inputs(op) ==
    CASE op = "vec2" -> 2
      [] op = "vec3" -> 3
      [] op = "vec4" -> 4
      [] op = "vec8" -> 8
      [] op = "fadd" -> 2
      [] OTHER -> 1

nir_op_is_vec(op) == op \in {"vec2", "vec3", "vec4", "vec8", "vec16"}

ScalarSrcs(n) == [i \in 1..n |-> AluSrc(i - 1, 32, 1, 0, FALSE, FALSE)]

VectorSrcs(n) == [i \in 1..n |-> AluSrc(i - 1, 32, 4, i - 1, FALSE, FALSE)]

MixedSrcs(n) ==
    [i \in 1..n |-> IF i % 2 = 1 THEN AluSrc(i - 1, 32, 4, 4 - i, FALSE, FALSE)
                                ELSE AluSrc(i - 1, 16, 1, 0, FALSE, FALSE)]

VecOp(n) == IF n = 2 THEN "vec2" ELSE IF n = 3 THEN "vec3" ELSE "vec4"

\* The instructions the walk may meet at the first position of a program.
LoadConstInstrs ==
    {LoadConst(b, 1, r) : b \in {16, 32}, r \in {15360, 1065353216}}
    \cup {LoadConst(64, 1, 15360), LoadConst(8, 1, 15360),
          LoadConst(32, 2, 15360)}

BarycentricInstrs == {LoadBarycentric(n) : n \in Barycentrics}

LoadVaryInstrs ==
    {LoadInterpolated(b, TRUE, o, c, "load_barycentric_pixel") :
        b \in {0, 3}, o \in {0, 1}, c \in 1..4}
    \cup {LoadInterpolated(0, TRUE, 0, 4, "load_barycentric_centroid"),
          LoadInterpolated(0, TRUE, 0, 4, "none"),
          LoadInterpolated(0, FALSE, 0, 4, "load_barycentric_pixel"),
          Intrinsic("load_input", TRUE, 4, 0, "none", TRUE, 0, 0, 0, 0)}

StoreOutputInstrs ==
    {StoreOutput(b, c, TRUE, o, 1, s) :
        b \in {0, 1}, c \in {0, 3}, o \in {0, 1}, s \in {0, 1}}
    \cup {StoreOutput(0, 0, TRUE, 0, 3, 1), StoreOutput(0, 0, TRUE, 0, 2, 1),
          StoreOutput(0, 0, FALSE, 0, 1, 1)}

OtherIntrinsicInstrs ==
    {Intrinsic("load_ubo", TRUE, 1, 0, "none", TRUE, 0, 0, 0, 0),
     Intrinsic("discard", FALSE, 0, 0, "none", TRUE, 0, 0, 0, 0)}

AluInstrs ==
    {Alu(VecOp(n), 32, n, ScalarSrcs(n)) : n \in 2..4}
    \cup {Alu(VecOp(n), 32, n, VectorSrcs(n)) : n \in 2..4}
    \cup {Alu(VecOp(n), 32, n, MixedSrcs(n)) : n \in 2..4}
    \cup {Alu("vec2", 32, 2, <<AluSrc(0, 32, 4, 1, FALSE, FALSE),
                               AluSrc(1, 32, 1, 0, TRUE, FALSE)>>),
          Alu("vec2", 32, 2, <<AluSrc(0, 32, 1, 0, FALSE, TRUE),
                               AluSrc(1, 32, 1, 0, FALSE, FALSE)>>),
          Alu("vec2", 8, 2, ScalarSrcs(2)),
          Alu("vec8", 32, 8, VectorSrcs(8)),
          Alu("fadd", 32, 1, VectorSrcs(2)),
          Alu("fadd", 32, 2, ScalarSrcs(2)),
          Alu("mov", 32, 1, ScalarSrcs(1))}

OtherInstrs == {[type |-> "tex"], [type |-> "jump"], [type |-> "ssa_undef"]}

FullInstrs ==
    LoadConstInstrs \cup BarycentricInstrs \cup LoadVaryInstrs
    \cup StoreOutputInstrs \cup OtherIntrinsicInstrs \cup AluInstrs
    \cup OtherInstrs

\* The instructions the walk may meet at any position of a program.
CoreInstrs ==
    {LoadConst(32, 1, 1065353216),
     LoadBarycentric("load_barycentric_pixel"),
     LoadInterpolated(0, TRUE, 0, 4, "load_barycentric_pixel"),
     StoreOutput(0, 0, TRUE, 0, 1, 1),
     Alu("vec4", 32, 4, ScalarSrcs(4)),
     [type |-> "tex"]}

\* Whether the instruction defines an SSA value.
HasDef(instr) ==
    \/ instr.type \in {"load_const", "alu", "tex", "ssa_undef"}
    \/ instr.type = "intrinsic" /\ instr.has_dest

\* The template with the SSA index the program gives its definition.
WithIndex(instr, k) ==
    CASE instr.type = "load_const" -> [instr EXCEPT !.def.index = k]
      [] instr.type = "intrinsic" /\ instr.has_dest ->
            [instr EXCEPT !.dest.index = k]
      [] instr.type = "alu" -> [instr EXCEPT !.dest.index = k]
      [] OTHER -> instr

\* ------------------------------------------------------------ the selector

\* What handling one source instruction did: the target instructions it
\* appended (in order), whether it ended the compilation, the diagnostic,
\* and the context's allocation counter afterwards.
Emitted(ins, alloc) ==
    [ins |-> ins, fatal |-> FALSE, diag |-> "", alloc |-> alloc]

Fatal(ins, diag, alloc) ==
    [ins |-> ins, fatal |-> TRUE, diag |-> diag, alloc |-> alloc]

Pow2(n) == 2 ^ n

\* Reads component 0 of the constant's union at the given width: the low
\* bit_size bits of its content.  The contents modelled are below 2^31, so
\* a read of 32 bits returns them whole.
nir_const_value_as_uint(raw, bit_size) ==
    IF bit_size >= 31 THEN raw ELSE raw % Pow2(bit_size)

BITFIELD_MASK(b) == Pow2(b) - 1

agx_dest_index(dest) ==
    agx_get_index(dest.index, agx_size_for_bits(dest.bit_size))

agx_src_index(src) ==
    agx_get_index(src.index, agx_size_for_bits(src.bit_size))

\* agx_emit_load_const reading every constant as a 32-bit value.
agx_emit_load_const_u32(instr, alloc) ==
    LET bit_size == instr.def.bit_size IN
    IF instr.def.num_components # 1
    THEN Fatal(<<>>, "instr->def.num_components == 1", alloc)
    ELSE IF bit_size \notin {16, 32}
    THEN Fatal(<<>>, "bit_size == 16 || bit_size == 32", alloc)
    ELSE Emitted(<<agx_mov_imm_to(
                      agx_get_index(instr.def.index, agx_size_for_bits(bit_size)),
                      nir_const_value_as_uint(instr.value[1], 32))>>,
                 alloc)

agx_emit_load_const(instr, alloc) ==
    LET bit_size == instr.def.bit_size IN
    IF instr.def.num_components # 1
    THEN Fatal(<<>>, "instr->def.num_components == 1", alloc)
    ELSE IF bit_size \notin {16, 32}
    THEN Fatal(<<>>, "bit_size == 16 || bit_size == 32", alloc)
    ELSE Emitted(<<agx_mov_imm_to(
                      agx_get_index(instr.def.index, agx_size_for_bits(bit_size)),
                      nir_const_value_as_uint(instr.value[1], bit_size))>>,
                 alloc)

agx_emit_load_attr(instr, alloc) == Fatal(<<>>, "stub", alloc)

\* agx_emit_load_vary setting the single bit `components` as the mask
\* (BITFIELD_BIT for BITFIELD_MASK).
agx_emit_load_vary_bit(instr, alloc) ==
    LET components == instr.num_components
        smooth == instr.intrinsic = "load_interpolated_input"
        imm_index == instr.base + instr.offset
        ld == agx_ld_vary_to(agx_dest_index(instr.dest), agx_immediate(imm_index))
    IN
    IF ~smooth
    THEN Fatal(<<>>, "todo: flat varyings", alloc)
    ELSE IF instr.parent = "none"
    THEN Fatal(<<>>, "parent", alloc)
    ELSE IF instr.parent # "load_barycentric_pixel"
    THEN Fatal(<<>>, "parent->intrinsic == nir_intrinsic_load_barycentric_pixel", alloc)
    ELSE IF ~instr.offset_const
    THEN Fatal(<<>>, "todo: indirects", alloc)
    ELSE IF components # 4
    THEN Emitted(<<[ld EXCEPT !.mask = Pow2(components)]>>, alloc)
    ELSE Emitted(<<ld>>, alloc)

\* imm_index is an unsigned int; bases and offsets of a shader's inputs and
\* outputs are slot numbers, far below the width at which it would wrap.
agx_emit_load_vary(instr, alloc) ==
    LET components == instr.num_components
        smooth == instr.intrinsic = "load_interpolated_input"
        imm_index == instr.base + instr.offset
        ld == agx_ld_vary_to(agx_dest_index(instr.dest), agx_immediate(imm_index))
    IN
    IF ~smooth
    THEN Fatal(<<>>, "todo: flat varyings", alloc)
    ELSE IF instr.parent = "none"
    THEN Fatal(<<>>, "parent", alloc)
    ELSE IF instr.parent # "load_barycentric_pixel"
    THEN Fatal(<<>>, "parent->intrinsic == nir_intrinsic_load_barycentric_pixel", alloc)
    ELSE IF ~instr.offset_const
    THEN Fatal(<<>>, "todo: indirects", alloc)
    ELSE IF components # 4
    THEN Emitted(<<[ld EXCEPT !.mask = BITFIELD_MASK(components)]>>, alloc)
    ELSE Emitted(<<ld>>, alloc)

\* agx_emit_store_vary without the factor 4 on the base.
agx_emit_store_vary_unscaled(instr, alloc) ==
    LET imm_index == instr.base + instr.component + instr.offset IN
    IF ~instr.offset_const
    THEN Fatal(<<>>, "todo: indirects", alloc)
    ELSE IF instr.write_mask # 1
    THEN Fatal(<<>>, "nir_intrinsic_write_mask(instr) == 0x1", alloc)
    ELSE Emitted(<<agx_st_vary(agx_immediate(imm_index),
                               agx_src_index(instr.src0))>>, alloc)

agx_emit_store_vary(instr, alloc) ==
    LET imm_index == 4 * instr.base + instr.component + instr.offset IN
    IF ~instr.offset_const
    THEN Fatal(<<>>, "todo: indirects", alloc)
    ELSE IF instr.write_mask # 1
    THEN Fatal(<<>>, "nir_intrinsic_write_mask(instr) == 0x1", alloc)
    ELSE Emitted(<<agx_st_vary(agx_immediate(imm_index),
                               agx_src_index(instr.src0))>>, alloc)

\* The shader's output variables with the given driver location.
nir_find_variable_with_driver_location(outputs, location) ==
    {i \in 1..Len(outputs) : outputs[i].driver_location = location}

\* agx_emit_fragment_out emitting the blend ahead of the writeouts.
agx_emit_fragment_out_blend_first(instr, outputs, tib_formats, alloc) ==
    LET found == nir_find_variable_with_driver_location(outputs, instr.base)
        var == outputs[CHOOSE i \in found : \A j \in found : i <= j]
        loc == var.location
        rt == IF loc = FRAG_RESULT_COLOR THEN 0 ELSE loc - FRAG_RESULT_DATA0
    IN
    IF found = {}
    THEN Fatal(<<>>, "var", alloc)
    ELSE IF var.index # 0
    THEN Fatal(<<>>, "todo: dual-source blending", alloc)
    ELSE IF ~(loc = FRAG_RESULT_COLOR \/ loc = FRAG_RESULT_DATA0)
    THEN Fatal(<<>>, "todo: MRT", alloc)
    ELSE Emitted(<<agx_blend(agx_src_index(instr.src0), tib_formats[rt + 1]),
                   agx_writeout(WRITEOUT_A),
                   agx_writeout(WRITEOUT_B)>>,
                 alloc)

\* agx_emit_fragment_out accepting every render-target slot.
agx_emit_fragment_out_mrt(instr, outputs, tib_formats, alloc) ==
    LET found == nir_find_variable_with_driver_location(outputs, instr.base)
        var == outputs[CHOOSE i \in found : \A j \in found : i <= j]
        loc == var.location
        rt == IF loc = FRAG_RESULT_COLOR THEN 0 ELSE loc - FRAG_RESULT_DATA0
    IN
    IF found = {}
    THEN Fatal(<<>>, "var", alloc)
    ELSE IF var.index # 0
    THEN Fatal(<<>>, "todo: dual-source blending", alloc)
    ELSE IF ~(loc = FRAG_RESULT_COLOR \/ loc >= FRAG_RESULT_DATA0)
    THEN Fatal(<<>>, "todo: MRT", alloc)
    ELSE Emitted(<<agx_writeout(WRITEOUT_A),
                   agx_writeout(WRITEOUT_B),
                   agx_blend(agx_src_index(instr.src0), tib_formats[rt + 1])>>,
                 alloc)

agx_emit_fragment_out(instr, outputs, tib_formats, alloc) ==
    LET found == nir_find_variable_with_driver_location(outputs, instr.base)
        var == outputs[CHOOSE i \in found : \A j \in found : i <= j]
        loc == var.location
        rt == IF loc = FRAG_RESULT_COLOR THEN 0 ELSE loc - FRAG_RESULT_DATA0
    IN
    IF found = {}
    THEN Fatal(<<>>, "var", alloc)
    ELSE IF var.index # 0
    THEN Fatal(<<>>, "todo: dual-source blending", alloc)
    ELSE IF ~(loc = FRAG_RESULT_COLOR \/ loc = FRAG_RESULT_DATA0)
    THEN Fatal(<<>>, "todo: MRT", alloc)
    ELSE Emitted(<<agx_writeout(WRITEOUT_A),
                   agx_writeout(WRITEOUT_B),
                   agx_blend(agx_src_index(instr.src0), tib_formats[rt + 1])>>,
                 alloc)

\* agx_emit_intrinsic whose default case returns without a diagnostic.
agx_emit_intrinsic_silent(instr, stage, outputs, tib_formats, alloc) ==
    CASE instr.intrinsic \in Barycentrics -> Emitted(<<>>, alloc)
      [] instr.intrinsic \in {"load_interpolated_input", "load_input"} ->
            IF stage = "MESA_SHADER_FRAGMENT"
            THEN agx_emit_load_vary(instr, alloc)
            ELSE IF stage = "MESA_SHADER_VERTEX"
            THEN agx_emit_load_attr(instr, alloc)
            ELSE Fatal(<<>>, "Unsupported shader stage", alloc)
      [] instr.intrinsic = "store_output" ->
            IF stage = "MESA_SHADER_FRAGMENT"
            THEN agx_emit_fragment_out(instr, outputs, tib_formats, alloc)
            ELSE IF stage = "MESA_SHADER_VERTEX"
            THEN agx_emit_store_vary(instr, alloc)
            ELSE Fatal(<<>>, "Unsupported shader stage", alloc)
      [] OTHER -> Emitted(<<>>, alloc)

agx_emit_intrinsic(instr, stage, outputs, tib_formats, alloc) ==
    CASE instr.intrinsic \in Barycentrics -> Emitted(<<>>, alloc)
      [] instr.intrinsic \in {"load_interpolated_input", "load_input"} ->
            IF stage = "MESA_SHADER_FRAGMENT"
            THEN agx_emit_load_vary(instr, alloc)
            ELSE IF stage = "MESA_SHADER_VERTEX"
            THEN agx_emit_load_attr(instr, alloc)
            ELSE Fatal(<<>>, "Unsupported shader stage", alloc)
      [] instr.intrinsic = "store_output" ->
            IF stage = "MESA_SHADER_FRAGMENT"
            THEN agx_emit_fragment_out(instr, outputs, tib_formats, alloc)
            ELSE IF stage = "MESA_SHADER_VERTEX"
            THEN agx_emit_store_vary(instr, alloc)
            ELSE Fatal(<<>>, "Unsupported shader stage", alloc)
      [] OTHER -> Fatal(<<>>, "Unhandled intrinsic " \o instr.intrinsic, alloc)

\* agx_alu_src_index extracting channel 0 whatever the swizzle says.
agx_alu_src_index_chan0(src, alloc) ==
    LET bitsize == src.src.bit_size
        comps == src.src.num_components
        channel == src.swizzle[1]
        idx == agx_src_index(src.src)
        tmp == agx_get_index(alloc, idx.size)
    IN
    IF bitsize \notin {16, 32, 64}
    THEN [idx |-> agx_null] @@ Fatal(<<>>, "bitsize == 16 || bitsize == 32 || bitsize == 64", alloc)
    ELSE IF src.negate \/ src.abs
    THEN [idx |-> agx_null] @@ Fatal(<<>>, "!(src.negate || src.abs)", alloc)
    ELSE IF ~(channel < comps)
    THEN [idx |-> agx_null] @@ Fatal(<<>>, "channel < comps", alloc)
    ELSE IF comps > 1
    THEN [idx |-> tmp] @@ Emitted(<<agx_p_extract_to(tmp, idx, 0)>>, alloc + 1)
    ELSE [idx |-> idx] @@ Emitted(<<>>, alloc)

\* One ALU source as a scalar: the operand, and the p_extract interposed
\* for a multi-component source (its destination is a fresh temporary,
\* numbered by the context's allocation counter).
agx_alu_src_index(src, alloc) ==
    LET bitsize == src.src.bit_size
        comps == src.src.num_components
        channel == src.swizzle[1]
        idx == agx_src_index(src.src)
        tmp == agx_get_index(alloc, idx.size)
    IN
    IF bitsize \notin {16, 32, 64}
    THEN [idx |-> agx_null] @@ Fatal(<<>>, "bitsize == 16 || bitsize == 32 || bitsize == 64", alloc)
    ELSE IF src.negate \/ src.abs
    THEN [idx |-> agx_null] @@ Fatal(<<>>, "!(src.negate || src.abs)", alloc)
    ELSE IF ~(channel < comps)
    THEN [idx |-> agx_null] @@ Fatal(<<>>, "channel < comps", alloc)
    ELSE IF comps > 1
    THEN [idx |-> tmp] @@ Emitted(<<agx_p_extract_to(tmp, idx, channel)>>, alloc + 1)
    ELSE [idx |-> idx] @@ Emitted(<<>>, alloc)

\* s0..s3 of agx_emit_alu, evaluated in order: acc holds the operands so
\* far, the instructions appended so far and the allocation counter; the
\* evaluation stops at the first failed assertion.
RECURSIVE AluOperands(_, _, _)
AluOperands(instr, i, acc) ==
    IF i > 4 \/ acc.fatal
    THEN acc
    ELSE IF num_inputs(instr.op) > i - 1
    THEN LET r == agx_alu_src_index(instr.src[i], acc.alloc) IN
         AluOperands(instr, i + 1,
                     [s |-> Append(acc.s, r.idx), ins |-> acc.ins \o r.ins,
                      fatal |-> r.fatal, diag |-> r.diag, alloc |-> r.alloc])
    ELSE AluOperands(instr, i + 1, [acc EXCEPT !.s = Append(acc.s, agx_null)])

agx_emit_alu(instr, alloc) ==
    LET sz == instr.dest.bit_size
        comps == instr.dest.num_components
        dst == agx_dest_index(instr.dest)
        ops == AluOperands(instr, 1, [s |-> <<>>] @@ Emitted(<<>>, alloc))
    IN
    IF ~(comps = 1 \/ nir_op_is_vec(instr.op))
    THEN Fatal(<<>>, "comps == 1 || nir_op_is_vec(instr->op)", alloc)
    ELSE IF sz \notin {16, 32, 64}
    THEN Fatal(<<>>, "sz == 16 || sz == 32 || sz == 64", alloc)
    ELSE IF ops.fatal
    THEN Fatal(ops.ins, ops.diag, ops.alloc)
    ELSE IF instr.op \in {"vec2", "vec3", "vec4"}
    THEN Emitted(ops.ins \o <<agx_p_combine_to(dst, ops.s[1], ops.s[2], ops.s[3], ops.s[4])>>,
                 ops.alloc)
    ELSE IF instr.op \in {"vec8", "vec16"}
    THEN Fatal(ops.ins, "should've been lowered", ops.alloc)
    ELSE Fatal(ops.ins, "Unhandled ALU op " \o instr.op, ops.alloc)

agx_emit_tex(instr, alloc) == Fatal(<<>>, "stub", alloc)

agx_emit_jump(instr, alloc) == Fatal(<<>>, "stub", alloc)

agx_emit_instr(instr, stage, outputs, tib_formats, alloc) ==
    CASE instr.type = "load_const" -> agx_emit_load_const(instr, alloc)
      [] instr.type = "intrinsic" ->
            agx_emit_intrinsic(instr, stage, outputs, tib_formats, alloc)
      [] instr.type = "alu" -> agx_emit_alu(instr, alloc)
      [] instr.type = "tex" -> agx_emit_tex(instr, alloc)
      [] instr.type = "jump" -> agx_emit_jump(instr, alloc)
      [] OTHER -> Fatal(<<>>, "should've been lowered", alloc)

\* ---------------------------------------------------------------- shaders

\* Output variables of a fragment shader: driver location, declared
\* location (a gl_frag_result) and dual-source index.
Var(driver_location, location, index) ==
    [driver_location |-> driver_location, location |-> location, index |-> index]

FragmentOutputs ==
    {<<Var(0, FRAG_RESULT_COLOR, 0), Var(1, 0, 0)>>,
     <<Var(0, FRAG_RESULT_DATA0, 0), Var(1, FRAG_RESULT_DATA0 + 1, 0)>>,
     <<Var(0, FRAG_RESULT_DATA0, 0), Var(1, FRAG_RESULT_DATA0, 1)>>,
     <<Var(1, FRAG_RESULT_COLOR, 1)>>}

\* key->fs.tib_formats, one format descriptor per render target.
TibFormats == {<<7, 9>>, <<9, 5>>}

\* Which functions of the shader have an implementation; a shader handed to
\* the backend has at least one (its entry point).
FuncLists == {<<TRUE>>, <<FALSE, TRUE>>, <<TRUE, TRUE>>}

Shaders ==
    [stage : {"MESA_SHADER_FRAGMENT"}, funcs : FuncLists,
     outputs : FragmentOutputs]
    \cup [stage : Stages \ {"MESA_SHADER_FRAGMENT"}, funcs : FuncLists,
          outputs : {<<Var(0, 0, 0)>>}]

\* ---------------------------------------------------------- the compilation

VARIABLES
    nir,      \* the shader: stage, functions, output variables
    key,      \* the compilation key
    body,     \* the nodes of the walked function's body visited so far
    blocks,   \* ctx->blocks, in creation order
    alloc,    \* ctx->alloc
    fi,       \* position of nir_foreach_function
    pc,       \* position in agx_compile_shader_nir
    diag      \* the diagnostic of the fatal error, if any

vars == <<nir, key, body, blocks, alloc, fi, pc, diag>>

\* The state of the compilations that run in parallel (SpecPar).
VARIABLES
    debug_option,   \* the statics of debug_get_option_agx_debug
    agx_debug,      \* the process-wide debug flags
    cpc,            \* each compilation's position in agx_compile_shader_nir
    internal,       \* nir->info.internal of each compilation's shader
    skip_internal,  \* each compilation's local skip_internal
    dumps           \* what each compilation has printed so far

parvars == <<debug_option, agx_debug, cpc, internal, skip_internal, dumps>>

\* The state of the device memory pool and of the threads that call into
\* vn_device_memory.c (SpecMem).
VARIABLES
    pool,     \* dev->memory_pools[i]: memory, used
    mtx,      \* pool->mutex: 0, or the thread that holds it
    memory,   \* the vn_device_memory objects that back the pool
    bo,       \* the reference count of each base memory's vn_renderer_bo
    subs,     \* the suballocations returned by vn_device_memory_pool_alloc
    th        \* each thread's position and locals

memvars == <<pool, mtx, memory, bo, subs, th>>

\* Each specification leaves the variables of the others at these values.
CompileUnused ==
    /\ nir = <<>> /\ key = <<>> /\ body = <<>> /\ blocks = <<>>
    /\ alloc = 0 /\ fi = 0 /\ pc = "unused" /\ diag = ""

ParUnused ==
    /\ debug_option = [first |-> TRUE, value |-> {}]
    /\ agx_debug = {} /\ cpc = <<>>
    /\ internal = <<>> /\ skip_internal = <<>> /\ dumps = <<>>

MemUnused ==
    /\ pool = <<>> /\ mtx = 0 /\ memory = <<>> /\ bo = <<>>
    /\ subs = <<>> /\ th = <<>>

\* All source instructions visited so far, in order.
RECURSIVE Flatten(_)
Flatten(nodes) ==
    IF nodes = <<>> THEN <<>>
    ELSE Flatten(SubSeq(nodes, 1, Len(nodes) - 1)) \o nodes[Len(nodes)].instrs

\* Number of SSA definitions among the given instructions.
RECURSIVE NumDefs(_)
NumDefs(instrs) ==
    IF instrs = <<>> THEN 0
    ELSE NumDefs(Tail(instrs)) + (IF HasDef(Head(instrs)) THEN 1 ELSE 0)

\* The programs explored: every program of one instruction, and every
\* program of up to MaxInstrs instructions of CoreInstrs.
NextInstrs ==
    LET seen == Flatten(body) IN
    IF seen = <<>> THEN FullInstrs
    ELSE IF Len(seen) < MaxInstrs
            /\ \A i \in 1..Len(seen) : WithIndex(seen[i], 0) \in CoreInstrs
    THEN CoreInstrs
    ELSE {}

Init ==
    /\ nir \in Shaders
    /\ key \in [fs : [tib_formats :
                  IF nir.stage = "MESA_SHADER_FRAGMENT" THEN TibFormats
                  ELSE {<<0, 0>>}]]
    /\ body = <<>>
    /\ blocks = <<>>
    /\ alloc = 0
    /\ fi = 1
    /\ pc = "start"
    /\ diag = ""
    /\ ParUnused
    /\ MemUnused

\* agx_compile_shader_nir up to the function loop: the context is created
\* with an empty block list; the lowering and optimisation passes run.
Begin ==
    /\ pc = "start"
    /\ blocks' = <<>>
    /\ alloc' = 0
    /\ fi' = 1
    /\ pc' = "funcs"
    /\ UNCHANGED <<nir, key, body, diag>>

\* nir_foreach_function: a function without an implementation is skipped.
SkipFunction ==
    /\ pc = "funcs"
    /\ fi <= Len(nir.funcs)
    /\ ~nir.funcs[fi]
    /\ fi' = fi + 1
    /\ UNCHANGED <<nir, key, body, blocks, alloc, pc, diag>>

\* The first function with an implementation is walked (and the loop is
\* left after it).
EnterFunction ==
    /\ pc = "funcs"
    /\ fi <= Len(nir.funcs)
    /\ nir.funcs[fi]
    /\ alloc' = alloc + SsaAlloc
    /\ pc' = "cf"
    /\ UNCHANGED <<nir, key, body, blocks, fi, diag>>

\* emit_cf_list meets a block node: emit_block creates the target block and
\* links it at the tail of ctx->blocks.
EmitBlock ==
    /\ pc = "cf"
    /\ Len(body) < MaxNodes
    /\ body' = Append(body, [type |-> "block", instrs |-> <<>>])
    /\ blocks' = Append(blocks, [name |-> 0, instructions |-> <<>>])
    /\ pc' = "block"
    /\ UNCHANGED <<nir, key, alloc, fi, diag>>

\* EmitInstr with the builder's cursor before the block's instructions
\* instead of after them.
EmitInstrBefore ==
    /\ pc = "block"
    /\ \E t \in NextInstrs :
        LET instr == WithIndex(t, NumDefs(Flatten(body)))
            r == agx_emit_instr(instr, nir.stage, nir.outputs,
                                key.fs.tib_formats, alloc)
            n == Len(body)
            m == Len(blocks)
        IN
        /\ body' = [body EXCEPT ![n].instrs = Append(@, instr)]
        /\ blocks' = [blocks EXCEPT ![m].instructions = r.ins \o @]
        /\ alloc' = r.alloc
        /\ pc' = IF r.fatal THEN "fatal" ELSE "block"
        /\ diag' = r.diag
    /\ UNCHANGED <<nir, key, fi>>

\* nir_foreach_instr in emit_block: the next instruction of the block is
\* handed to agx_emit_instr, which appends to the block being built.
EmitInstr ==
    /\ pc = "block"
    /\ \E t \in NextInstrs :
        LET instr == WithIndex(t, NumDefs(Flatten(body)))
            r == agx_emit_instr(instr, nir.stage, nir.outputs,
                                key.fs.tib_formats, alloc)
            n == Len(body)
            m == Len(blocks)
        IN
        /\ body' = [body EXCEPT ![n].instrs = Append(@, instr)]
        /\ blocks' = [blocks EXCEPT ![m].instructions = @ \o r.ins]
        /\ alloc' = r.alloc
        /\ pc' = IF r.fatal THEN "fatal" ELSE "block"
        /\ diag' = r.diag
    /\ UNCHANGED <<nir, key, fi>>

\* The block has no further instruction: emit_block returns.
EndBlock ==
    /\ pc = "block"
    /\ pc' = "cf"
    /\ UNCHANGED <<nir, key, body, blocks, alloc, fi, diag>>

\* EmitIf with emit_if returning instead of ending the compilation.
EmitIfSkipped ==
    /\ pc = "cf"
    /\ 0 < Len(body) /\ Len(body) < MaxNodes
    /\ body' = Append(body, [type |-> "if", instrs |-> <<>>])
    /\ pc' = "cf"
    /\ UNCHANGED <<nir, key, blocks, alloc, fi, diag>>

\* emit_cf_list meets a conditional node.
EmitIf ==
    /\ pc = "cf"
    /\ 0 < Len(body) /\ Len(body) < MaxNodes
    /\ body' = Append(body, [type |-> "if", instrs |-> <<>>])
    /\ pc' = "fatal"
    /\ diag' = "if-statements todo"
    /\ UNCHANGED <<nir, key, blocks, alloc, fi>>

\* emit_cf_list meets a loop node.
EmitLoop ==
    /\ pc = "cf"
    /\ 0 < Len(body) /\ Len(body) < MaxNodes
    /\ body' = Append(body, [type |-> "loop", instrs |-> <<>>])
    /\ pc' = "fatal"
    /\ diag' = "loops todo"
    /\ UNCHANGED <<nir, key, blocks, alloc, fi>>

\* The epilogue with one trap fewer.
EpilogueShort == <<agx_stop>> \o [i \in 1..(NumTraps - 1) |-> agx_trap]

\* The stop and the traps appended after the last block's instructions.
Epilogue == <<agx_stop>> \o [i \in 1..NumTraps |-> agx_trap]

\* Terminate taking the first block of ctx->blocks for the last one.
TerminateFirstBlock ==
    /\ pc = "cf"
    /\ Len(body) > 0
    /\ blocks' = [i \in 1..Len(blocks) |->
                    [name |-> i - 1,
                     instructions |->
                        IF i = 1
                        THEN blocks[i].instructions \o <<agx_stop>>
                                \o [j \in 1..NumTraps |-> agx_trap]
                        ELSE blocks[i].instructions]]
    /\ pc' = "ra"
    /\ UNCHANGED <<nir, key, body, alloc, fi, diag>>

\* The list is exhausted: the shader is terminated after the last block in
\* ctx->blocks and the blocks are named in list order.
Terminate ==
    /\ pc = "cf"
    /\ Len(body) > 0
    /\ blocks' = [i \in 1..Len(blocks) |->
                    [name |-> i - 1,
                     instructions |->
                        IF i = Len(blocks)
                        THEN blocks[i].instructions \o Epilogue
                        ELSE blocks[i].instructions]]
    /\ pc' = "ra"
    /\ UNCHANGED <<nir, key, body, alloc, fi, diag>>

\* agx_ra
RegisterAllocate ==
    /\ pc = "ra"
    /\ pc' = "pack"
    /\ UNCHANGED <<nir, key, body, blocks, alloc, fi, diag>>

\* agx_pack, then the context is freed.
Pack ==
    /\ pc = "pack"
    /\ pc' = "done"
    /\ UNCHANGED <<nir, key, body, blocks, alloc, fi, diag>>

Next ==
    \/ Begin /\ UNCHANGED <<parvars, memvars>>
    \/ SkipFunction /\ UNCHANGED <<parvars, memvars>>
    \/ EnterFunction /\ UNCHANGED <<parvars, memvars>>
    \/ EmitBlock /\ UNCHANGED <<parvars, memvars>>
    \/ EmitInstr /\ UNCHANGED <<parvars, memvars>>
    \/ EndBlock /\ UNCHANGED <<parvars, memvars>>
    \/ EmitIf /\ UNCHANGED <<parvars, memvars>>
    \/ EmitLoop /\ UNCHANGED <<parvars, memvars>>
    \/ Terminate /\ UNCHANGED <<parvars, memvars>>
    \/ RegisterAllocate /\ UNCHANGED <<parvars, memvars>>
    \/ Pack /\ UNCHANGED <<parvars, memvars>>

Spec == Init /\ [][Next]_<<vars, parvars, memvars>>

\* ------------------------------------------------------------- properties

\* The source instruction handled last, and the code of the block being
\* built.
LastInstr ==
    LET is == body[Len(body)].instrs IN is[Len(is)]

CurCode == blocks[Len(blocks)].instructions

\* A step in which the selector handles one source instruction.
Selecting == pc = "block" /\ body' # body

\* What that step appended to the block being built.
Appended == SubSeq(CurCode', Len(CurCode) + 1, Len(CurCode'))

\* The step left the instructions already in the block alone.
OnlyAppends == SubSeq(CurCode', 1, Len(CurCode)) = CurCode

RECURSIVE PopCount(_)
PopCount(m) == IF m = 0 THEN 0 ELSE (m % 2) + PopCount(m \div 2)

IsReg(operand, index) == operand.type = "ssa" /\ operand.value = index

IsImm(operand, value) == operand.type = "imm" /\ operand.value = value

\* C4: a constant load of one component and width 16 or 32 is translated to
\* exactly one move-immediate into the register of its SSA index carrying
\* the low bits of component 0 at the constant's width; any other constant
\* load ends the compilation and emits nothing.
C4_LoadConst ==
    [][Selecting /\ LastInstr'.type = "load_const" =>
        LET i == LastInstr'
            w == i.def.bit_size
        IN
        /\ OnlyAppends
        /\ IF i.def.num_components = 1 /\ w \in {16, 32}
           THEN /\ pc' # "fatal"
                /\ Len(Appended) = 1
                /\ Appended[1].op = "mov_imm"
                /\ IsReg(Appended[1].dest, i.def.index)
                /\ Appended[1].imm =
                      (IF w = 16 THEN i.value[1] % 65536 ELSE i.value[1])
           ELSE pc' = "fatal" /\ Appended = <<>>]_vars

\* A 16-bit constant whose union content has bits above the low 16 has been
\* translated.
C4_Witness ==
    /\ pc = "block"
    /\ Len(body) = 1 /\ Len(body[1].instrs) = 1
    /\ LastInstr.type = "load_const"
    /\ LastInstr.def.bit_size = 16
    /\ LastInstr.value[1] > 65535
    /\ Len(CurCode) = 1 /\ CurCode[1].op = "mov_imm"

\* C5: in the fragment stage an interpolated load with a pixel barycentric
\* parent and constant offset o, base b and c components appends exactly one
\* ld_vary with immediate index b + o; for c < 4 its mask has exactly c bits
\* set, the lowest c, and for c = 4 the mask is left at the builder's default.
C5_LoadVary ==
    [][/\ Selecting
       /\ nir.stage = "MESA_SHADER_FRAGMENT"
       /\ LastInstr'.type = "intrinsic"
       /\ LastInstr'.intrinsic = "load_interpolated_input"
       /\ LastInstr'.parent = "load_barycentric_pixel"
       /\ LastInstr'.offset_const
       /\ LastInstr'.num_components \in 1..4
       =>
        LET i == LastInstr'
            c == i.num_components
        IN
        /\ OnlyAppends
        /\ pc' # "fatal"
        /\ Len(Appended) = 1
        /\ Appended[1].op = "ld_vary"
        /\ IsReg(Appended[1].dest, i.dest.index)
        /\ IsImm(Appended[1].src[1], i.base + i.offset)
        /\ c < 4 => /\ PopCount(Appended[1].mask) = c
                    /\ Appended[1].mask < 2 ^ c
        /\ c = 4 => Appended[1].mask = AGX_MASK_DEFAULT]_vars

\* A three-component load at base 3, offset 1 has been translated.
C5_Witness ==
    /\ pc = "block"
    /\ nir.stage = "MESA_SHADER_FRAGMENT"
    /\ Len(body) = 1 /\ Len(body[1].instrs) = 1
    /\ LastInstr.type = "intrinsic"
    /\ LastInstr.intrinsic = "load_interpolated_input"
    /\ LastInstr.num_components = 3
    /\ LastInstr.base = 3 /\ LastInstr.offset = 1
    /\ Len(CurCode) = 1 /\ CurCode[1].op = "ld_vary" /\ CurCode[1].mask = 7

\* C6: in the vertex stage a store_output with constant offset o, base b and
\* component comp appends exactly one st_vary with immediate index
\* 4*b + comp + o and the stored value as source when its write mask is 1;
\* with any other write mask the compilation ends and no st_vary is emitted.
C6_StoreVary ==
    [][/\ Selecting
       /\ nir.stage = "MESA_SHADER_VERTEX"
       /\ LastInstr'.type = "intrinsic"
       /\ LastInstr'.intrinsic = "store_output"
       /\ LastInstr'.offset_const
       =>
        LET i == LastInstr' IN
        /\ OnlyAppends
        /\ IF i.write_mask = 1
           THEN /\ pc' # "fatal"
                /\ Len(Appended) = 1
                /\ Appended[1].op = "st_vary"
                /\ IsImm(Appended[1].src[1], 4 * i.base + i.component + i.offset)
                /\ IsReg(Appended[1].src[2], i.src0.index)
           ELSE /\ pc' = "fatal"
                /\ \A k \in 1..Len(Appended) : Appended[k].op # "st_vary"]_vars

\* A store to base 1, component 3, offset 1 has been translated.
C6_Witness ==
    /\ pc = "block"
    /\ nir.stage = "MESA_SHADER_VERTEX"
    /\ Len(body) = 1 /\ Len(body[1].instrs) = 1
    /\ LastInstr.type = "intrinsic"
    /\ LastInstr.intrinsic = "store_output"
    /\ LastInstr.base = 1 /\ LastInstr.component = 3 /\ LastInstr.offset = 1
    /\ Len(CurCode) = 1 /\ CurCode[1].op = "st_vary"

\* The output variables the shader declares at a driver location.
OutVars(base) ==
    {nir.outputs[i] : i \in {j \in 1..Len(nir.outputs) :
                                nir.outputs[j].driver_location = base}}

FragmentStore(i) ==
    /\ nir.stage = "MESA_SHADER_FRAGMENT"
    /\ i.type = "intrinsic"
    /\ i.intrinsic = "store_output"

\* C2: a fragment store_output to the implicit colour output appends, in
\* this order and nothing else, writeout 0xC200, writeout 0x000C and one
\* blend of the stored value with the key's render-target-0 format.
C2_FragmentOutOrder ==
    [][/\ Selecting
       /\ FragmentStore(LastInstr')
       /\ \E v \in OutVars(LastInstr'.base) :
             v.location = FRAG_RESULT_COLOR /\ v.index = 0
       =>
        /\ OnlyAppends
        /\ pc' # "fatal"
        /\ Len(Appended) = 3
        /\ Appended[1].op = "writeout" /\ Appended[1].imm = 49664
        /\ Appended[2].op = "writeout" /\ Appended[2].imm = 12
        /\ Appended[3].op = "blend"
        /\ IsReg(Appended[3].src[1], LastInstr'.src0.index)
        /\ Appended[3].format = key.fs.tib_formats[1]]_vars

\* A store of value 1 to the implicit colour output has been translated.
C2_Witness ==
    /\ pc = "block"
    /\ Len(body) = 1 /\ Len(body[1].instrs) = 1
    /\ FragmentStore(LastInstr)
    /\ LastInstr.src0.index = 1
    /\ \E v \in OutVars(LastInstr.base) :
          v.location = FRAG_RESULT_COLOR /\ v.index = 0
    /\ Len(CurCode) = 3 /\ CurCode[3].op = "blend"

\* C10: a fragment store_output is translated exactly when its variable has
\* dual-source index 0 and location FRAG_RESULT_COLOR or FRAG_RESULT_DATA0,
\* and then every blend uses format 0 of the key; otherwise the compilation
\* ends with no writeout and no blend emitted.
C10_FragmentOutTargets ==
    [][Selecting /\ FragmentStore(LastInstr') =>
        /\ OnlyAppends
        /\ IF \E v \in OutVars(LastInstr'.base) :
                 /\ v.index = 0
                 /\ v.location \in {FRAG_RESULT_COLOR, FRAG_RESULT_DATA0}
           THEN /\ pc' # "fatal"
                /\ \E k \in 1..Len(Appended) : Appended[k].op = "blend"
                /\ \A k \in 1..Len(Appended) :
                      Appended[k].op = "blend" =>
                         Appended[k].format = key.fs.tib_formats[1]
           ELSE /\ pc' = "fatal"
                /\ \A k \in 1..Len(Appended) :
                      Appended[k].op \notin {"writeout", "blend"}]_vars

\* A store to a variable declared at render-target slot 0 has been
\* translated.
C10_Witness ==
    /\ pc = "block"
    /\ Len(body) = 1 /\ Len(body[1].instrs) = 1
    /\ FragmentStore(LastInstr)
    /\ \E v \in OutVars(LastInstr.base) :
          v.location = FRAG_RESULT_DATA0 /\ v.index = 0
    /\ Len(CurCode) = 3 /\ CurCode[3].format = key.fs.tib_formats[1]

TranslatedIntrinsics ==
    {"load_interpolated_input", "load_input", "store_output"}

\* C8 as stated: every instruction handed to the selector appends at least
\* one target instruction or ends the compilation, and every intrinsic
\* other than the input loads and the output stores ends it with a
\* diagnostic naming the intrinsic.
C8_NoSilentAccept ==
    [][Selecting =>
        /\ Len(Appended) >= 1 \/ pc' = "fatal"
        /\ (/\ LastInstr'.type = "intrinsic"
            /\ LastInstr'.intrinsic \notin TranslatedIntrinsics)
           => /\ pc' = "fatal"
              /\ diag' = "Unhandled intrinsic " \o LastInstr'.intrinsic]_vars

\* C8 amended: the five load_barycentric_* intrinsics are accepted and
\* append nothing; every other instruction appends at least one target
\* instruction or ends the compilation, and every intrinsic other than the
\* barycentric loads, the input loads and the output stores ends it with a
\* diagnostic naming the intrinsic and appends nothing.
C8_OnlyBarycentricsSilent ==
    [][Selecting =>
        LET i == LastInstr'
            bary == i.type = "intrinsic" /\ i.intrinsic \in Barycentrics
        IN
        /\ OnlyAppends
        /\ bary => Appended = <<>> /\ pc' # "fatal"
        /\ ~bary => Len(Appended) >= 1 \/ pc' = "fatal"
        /\ (/\ i.type = "intrinsic"
            /\ i.intrinsic \notin TranslatedIntrinsics \cup Barycentrics)
           => /\ pc' = "fatal"
              /\ diag' = "Unhandled intrinsic " \o i.intrinsic
              /\ Appended = <<>>]_vars

\* A load_barycentric_pixel has been accepted and the block is still empty.
C8_Witness ==
    /\ pc = "block"
    /\ Len(body) = 1 /\ Len(body[1].instrs) = 1
    /\ LastInstr.type = "intrinsic"
    /\ LastInstr.intrinsic = "load_barycentric_pixel"
    /\ CurCode = <<>>

HandedOff == pc \in {"ra", "pack", "done"}

\* C7: once the walk has met a conditional or a loop node the compilation
\* has ended fatally at that node: it is the last node visited, and no stop
\* or trap has been emitted.
C7_ControlFlowFatal ==
    \A i \in 1..Len(body) :
        body[i].type \in {"if", "loop"} =>
            /\ pc = "fatal"
            /\ i = Len(body)
            /\ diag = (IF body[i].type = "if" THEN "if-statements todo"
                                              ELSE "loops todo")
            /\ \A k \in 1..Len(blocks) :
                  \A j \in 1..Len(blocks[k].instructions) :
                      blocks[k].instructions[j].op \notin {"stop", "trap"}

\* A loop node has been met after a block holding translated instructions.
C7_Witness ==
    /\ Len(body) = 2
    /\ body[1].type = "block" /\ Len(body[1].instrs) = 2
    /\ body[2].type = "loop"
    /\ Len(blocks[1].instructions) > 0
    /\ pc = "fatal"

\* C9: once the compilation has reached the register allocator, the last
\* block ends with one stop followed by exactly 8 traps, and there is no
\* stop or trap before them in that block or in any other block.
C9_Epilogue ==
    HandedOff =>
        LET n == Len(blocks)
            code == blocks[n].instructions
            L == Len(code)
        IN
        /\ n >= 1
        /\ L >= 9
        /\ code[L - 8].op = "stop"
        /\ \A j \in (L - 7)..L : code[j].op = "trap"
        /\ \A j \in 1..(L - 9) : code[j].op \notin {"stop", "trap"}
        /\ \A k \in 1..(n - 1) :
              \A j \in 1..Len(blocks[k].instructions) :
                  blocks[k].instructions[j].op \notin {"stop", "trap"}

\* Two blocks with translated instructions have been handed to the register
\* allocator.
C9_Witness ==
    /\ pc = "ra"
    /\ Len(blocks) = 2
    /\ Len(blocks[1].instructions) > 0
    /\ Len(blocks[2].instructions) > 9

\* A legal vector-pack source: a supported width, no modifier, a channel
\* the source has.
LegalAluSrc(a) ==
    /\ a.src.bit_size \in {16, 32, 64}
    /\ ~a.negate /\ ~a.abs
    /\ a.swizzle[1] < a.src.num_components

\* The instructions of C1's programs: legalized constant loads, vec2/3/4
\* packs, and the input/output intrinsics the stage supports (with the
\* barycentric loads that feed the interpolated input loads).
Supported(i) ==
    \/ /\ i.type = "load_const"
       /\ i.def.num_components = 1
       /\ i.def.bit_size \in {16, 32}
    \/ /\ i.type = "alu"
       /\ i.op \in {"vec2", "vec3", "vec4"}
       /\ i.dest.bit_size \in {16, 32, 64}
       /\ \A k \in 1..Len(i.src) : LegalAluSrc(i.src[k])
    \/ /\ i.type = "intrinsic"
       /\ i.intrinsic \in Barycentrics
    \/ /\ i.type = "intrinsic"
       /\ i.intrinsic = "load_interpolated_input"
       /\ nir.stage = "MESA_SHADER_FRAGMENT"
       /\ i.parent = "load_barycentric_pixel"
       /\ i.offset_const
    \/ /\ FragmentStore(i)
       /\ \E v \in OutVars(i.base) :
             /\ v.index = 0
             /\ v.location \in {FRAG_RESULT_COLOR, FRAG_RESULT_DATA0}
    \/ /\ i.type = "intrinsic"
       /\ i.intrinsic = "store_output"
       /\ nir.stage = "MESA_SHADER_VERTEX"
       /\ i.offset_const
       /\ i.write_mask = 1

StraightLine ==
    \A n \in 1..Len(body) :
        /\ body[n].type = "block"
        /\ \A j \in 1..Len(body[n].instrs) : Supported(body[n].instrs[j])

EmitsNothing(i) == i.type = "intrinsic" /\ i.intrinsic \in Barycentrics

\* The target instruction that carries a source instruction's result, as
\* <<opcode, register>>: the register is the SSA index it defines, or for a
\* store the SSA index it stores.
SourceKey(i) ==
    CASE i.type = "load_const" -> <<"mov_imm", i.def.index>>
      [] i.type = "alu" -> <<"p_combine", i.dest.index>>
      [] i.type = "intrinsic" /\ i.intrinsic = "load_interpolated_input" ->
            <<"ld_vary", i.dest.index>>
      [] i.type = "intrinsic" /\ nir.stage = "MESA_SHADER_VERTEX" ->
            <<"st_vary", i.src0.index>>
      [] OTHER -> <<"blend", i.src0.index>>

TargetKey(x) ==
    CASE x.op = "st_vary" -> <<x.op, x.src[2].value>>
      [] x.op = "blend" -> <<x.op, x.src[1].value>>
      [] OTHER -> <<x.op, x.dest.value>>

CarriesResult(x) ==
    x.op \in {"mov_imm", "p_combine", "ld_vary", "st_vary", "blend"}

SourceKeys(instrs) ==
    LET kept == SelectSeq(instrs, LAMBDA i : ~EmitsNothing(i)) IN
    [j \in 1..Len(kept) |-> SourceKey(kept[j])]

TargetKeys(code) ==
    LET kept == SelectSeq(code, CarriesResult) IN
    [j \in 1..Len(kept) |-> TargetKey(kept[j])]

\* C1: while the walked program holds only straight-line blocks of
\* supported instructions the compilation has not ended fatally, the
\* context holds one target block per source block visited, in the same
\* order, and each target block holds the translations of its source
\* block's instructions in their original order.
C1_StraightLinePrograms ==
    StraightLine =>
        /\ pc # "fatal"
        /\ Len(blocks) = Len(body)
        /\ \A n \in 1..Len(body) :
              TargetKeys(blocks[n].instructions) = SourceKeys(body[n].instrs)
        /\ (pc = "cf" /\ Len(body) > 0) => ENABLED Terminate

\* A program of two blocks, three instructions in all, has been handed to
\* the register allocator.
C1_Witness ==
    /\ pc = "ra"
    /\ StraightLine
    /\ Len(body) = 2
    /\ Len(body[1].instrs) = 2 /\ Len(body[2].instrs) = 1
    /\ SourceKeys(body[1].instrs) # <<>>
    /\ SourceKeys(body[2].instrs) # <<>>

\* The trivial fragment shader: one block that ends with a 4-component
\* interpolated load at constant offset 0 and a store of the loaded value
\* to the implicit colour output.
TrivialFragmentShader ==
    /\ nir.stage = "MESA_SHADER_FRAGMENT"
    /\ Len(body) = 1
    /\ Len(body[1].instrs) >= 2
    /\ LET is == body[1].instrs
           ld == is[Len(is) - 1]
           st == is[Len(is)]
       IN
       /\ ld.type = "intrinsic"
       /\ ld.intrinsic = "load_interpolated_input"
       /\ ld.parent = "load_barycentric_pixel"
       /\ ld.num_components = 4
       /\ ld.offset_const /\ ld.offset = 0
       /\ FragmentStore(st)
       /\ st.src0.index = ld.dest.index
       /\ \E v \in OutVars(st.base) :
             v.location = FRAG_RESULT_COLOR /\ v.index = 0

TrivialLoad == body[1].instrs[Len(body[1].instrs) - 1]

\* The last n instructions of the only block.
CodeTail(n) ==
    LET code == blocks[1].instructions IN
    SubSeq(code, Len(code) - n + 1, Len(code))

\* C3 as stated: the compiled trivial shader is one block that ends with
\* ld_vary (immediate 0, full mask), blend, writeout, writeout, stop and 8
\* traps.
C3_TrivialShaderBlendFirst ==
    (HandedOff /\ TrivialFragmentShader) =>
        /\ Len(blocks) = 1
        /\ Len(blocks[1].instructions) >= 13
        /\ LET t == CodeTail(13) IN
           /\ t[1].op = "ld_vary"
           /\ IsImm(t[1].src[1], 0)
           /\ t[1].mask = AGX_MASK_DEFAULT
           /\ t[2].op = "blend"
           /\ IsReg(t[2].src[1], TrivialLoad.dest.index)
           /\ t[2].format = key.fs.tib_formats[1]
           /\ t[3].op = "writeout" /\ t[4].op = "writeout"
           /\ t[5].op = "stop"
           /\ \A j \in 6..13 : t[j].op = "trap"

\* C3 amended: the compiled trivial shader is one block that ends with
\* ld_vary (immediate = the input's base, full mask), writeout 0xC200,
\* writeout 0x000C, blend of the loaded value with the key's
\* render-target-0 format, stop and 8 traps.
C3_TrivialShaderWriteoutFirst ==
    (HandedOff /\ TrivialFragmentShader) =>
        /\ Len(blocks) = 1
        /\ Len(blocks[1].instructions) >= 13
        /\ LET t == CodeTail(13) IN
           /\ t[1].op = "ld_vary"
           /\ IsImm(t[1].src[1], TrivialLoad.base)
           /\ IsReg(t[1].dest, TrivialLoad.dest.index)
           /\ t[1].mask = AGX_MASK_DEFAULT
           /\ t[2].op = "writeout" /\ t[2].imm = 49664
           /\ t[3].op = "writeout" /\ t[3].imm = 12
           /\ t[4].op = "blend"
           /\ IsReg(t[4].src[1], TrivialLoad.dest.index)
           /\ t[4].format = key.fs.tib_formats[1]
           /\ t[5].op = "stop"
           /\ \A j \in 6..13 : t[j].op = "trap"

\* The trivial shader (barycentric load, interpolated load, store) has been
\* handed to the register allocator.
C3_Witness ==
    /\ pc = "ra"
    /\ TrivialFragmentShader
    /\ Len(body[1].instrs) = 3
    /\ body[1].instrs[1].type = "intrinsic"
    /\ body[1].instrs[1].intrinsic = "load_barycentric_pixel"
    /\ Len(blocks[1].instructions) = 13

\* A source of the ALU instruction carries a negate or absolute-value
\* modifier.
HasModifier(i) == \E k \in 1..Len(i.src) : i.src[k].negate \/ i.src[k].abs

\* The widths and the swizzle of the ALU instruction are those of the
\* legalized source IR: destination and sources of 16, 32 or 64 bits, and
\* each source's first swizzle entry a channel of that source.
WellFormedAlu(i) ==
    /\ i.dest.bit_size \in {16, 32, 64}
    /\ \A k \in 1..Len(i.src) :
          /\ i.src[k].src.bit_size \in {16, 32, 64}
          /\ i.src[k].swizzle[1] < i.src[k].src.num_components

\* The positions of the multi-component sources, in order.
MultiSrcs(i) ==
    SelectSeq([k \in 1..Len(i.src) |-> k],
              LAMBDA k : i.src[k].src.num_components > 1)

\* C11: a well-formed vec2, vec3 or vec4 without source modifiers is
\* translated to one p_extract per multi-component source, in source order,
\* each reading that source and selecting its swizzle[0] channel, followed
\* by exactly one p_combine that writes the operation's destination; the
\* combine's operands are, in order, the single-component sources
\* themselves and the extraction results, and null beyond the last source.
\* Every other ALU opcode, and every ALU instruction with a negate or
\* absolute-value modifier on a source, ends the compilation fatally.
C11_VecCombine ==
    [][Selecting /\ LastInstr'.type = "alu" =>
        LET i == LastInstr'
            n == Len(i.src)
            multi == MultiSrcs(i)
            e == Len(multi)
        IN
        /\ OnlyAppends
        /\ (i.op \notin {"vec2", "vec3", "vec4"} \/ HasModifier(i)) =>
              pc' = "fatal"
        /\ (i.op \in {"vec2", "vec3", "vec4"} /\ ~HasModifier(i) /\ WellFormedAlu(i)) =>
              /\ pc' # "fatal"
              /\ Len(Appended) = e + 1
              /\ \A j \in 1..e :
                    /\ Appended[j].op = "p_extract"
                    /\ IsReg(Appended[j].src[1], i.src[multi[j]].src.index)
                    /\ Appended[j].imm = i.src[multi[j]].swizzle[1]
              /\ LET c == Appended[e + 1] IN
                 /\ c.op = "p_combine"
                 /\ IsReg(c.dest, i.dest.index)
                 /\ \A k \in 1..4 :
                       IF k > n THEN c.src[k] = agx_null
                       ELSE IF i.src[k].src.num_components = 1
                       THEN IsReg(c.src[k], i.src[k].src.index)
                       ELSE \E j \in 1..e :
                               /\ multi[j] = k
                               /\ c.src[k] = Appended[j].dest]_vars

\* A vec3 with two multi-component sources and one single-component source
\* has been translated: two extractions and the combine.
C11_Witness ==
    /\ pc = "block"
    /\ Len(body) = 1
    /\ Len(body[1].instrs) = 1
    /\ LastInstr.type = "alu"
    /\ LastInstr.op = "vec3"
    /\ Len(MultiSrcs(LastInstr)) = 2
    /\ Len(CurCode) = 3
    /\ CurCode[3].op = "p_combine"
    /\ CurCode[3].src[4] = agx_null

\* The number of functions of the shader that have an implementation.
RECURSIVE NumImpls(_)
NumImpls(funcs) ==
    IF funcs = <<>> THEN 0
    ELSE NumImpls(Tail(funcs)) + (IF Head(funcs) THEN 1 ELSE 0)

\* C12: a shader with more than one implemented function is never
\* translated: once the function loop has been left the compilation has
\* ended fatally with a diagnostic, and no block has been created.
C12_MultiFunctionFatal ==
    (NumImpls(nir.funcs) > 1 /\ pc \notin {"start", "funcs"}) =>
        /\ pc = "fatal"
        /\ diag # ""
        /\ blocks = <<>>

\* ------------------------------------------------ compilations in parallel

\* Two calls of agx_compile_shader_nir on distinct shaders, each with its
\* own context, nir_shader and binary, interleaved in every order.
Comps == {1, 2}

\* The values AGX_MESA_DEBUG may give the debug flags.
DebugValues == {{}, {"shaders"}, {"shaders", "internal"}, {"shaderdb"}}

\* debug_get_option_agx_debug: the environment is parsed by the first call
\* and the cached value is returned ever after.
debug_get_option_agx_debug(cached) ==
    IF cached.first THEN DebugValues ELSE {cached.value}

\* The positions of one compilation, in program order.
ParPositions ==
    <<"entry", "passes", "optimize", "dump", "select", "print", "ra",
      "print_ra", "pack", "stats", "free", "done">>

\* The memory locations written and read by the step a compilation takes
\* at a position: the process-wide agx_debug and option cache (numbered
\* 0), and the compilation's own context, shader and binary.
Writes(c, p) ==
    CASE p = "entry" -> {<<"agx_debug", 0>>, <<"debug_option", 0>>}
      [] p = "passes" -> {<<"ctx", c>>, <<"nir", c>>}
      [] p = "optimize" -> {<<"nir", c>>}
      [] p = "select" -> {<<"ctx", c>>}
      [] p = "ra" -> {<<"ctx", c>>}
      [] p = "pack" -> {<<"binary", c>>}
      [] p = "free" -> {<<"ctx", c>>}
      [] OTHER -> {}

Reads(c, p) ==
    CASE p = "entry" -> {<<"debug_option", 0>>}
      [] p = "dump" -> {<<"agx_debug", 0>>, <<"nir", c>>}
      [] p = "select" -> {<<"nir", c>>}
      [] p = "print" -> {<<"agx_debug", 0>>, <<"ctx", c>>}
      [] p = "print_ra" -> {<<"agx_debug", 0>>, <<"ctx", c>>}
      [] p = "pack" -> {<<"ctx", c>>}
      [] p = "stats" -> {<<"agx_debug", 0>>, <<"ctx", c>>}
      [] OTHER -> {}

\* Every location a compilation reads or writes in the course of its run.
Footprint(c) ==
    UNION {Reads(c, ParPositions[k]) \cup Writes(c, ParPositions[k]) :
             k \in 1..Len(ParPositions)}

InitPar ==
    /\ debug_option = [first |-> TRUE, value |-> {}]
    /\ agx_debug = {}
    /\ cpc = [c \in Comps |-> "entry"]
    /\ internal \in [Comps -> BOOLEAN]
    /\ skip_internal = [c \in Comps |-> FALSE]
    /\ dumps = [c \in Comps |-> <<>>]
    /\ CompileUnused
    /\ MemUnused

\* agx_debug = debug_get_option_agx_debug();
ParEntry(c) ==
    /\ cpc[c] = "entry"
    /\ \E v \in debug_get_option_agx_debug(debug_option) :
          /\ debug_option' = [first |-> FALSE, value |-> v]
          /\ agx_debug' = v
    /\ cpc' = [cpc EXCEPT ![c] = "passes"]
    /\ UNCHANGED <<internal, skip_internal, dumps>>

\* A step that touches only the compilation's own context, shader or
\* binary: context creation and lowering passes, agx_optimize_nir, the
\* function walk with the epilogue, agx_ra, agx_pack, ralloc_free.
ParOwnStep(c, from, to) ==
    /\ cpc[c] = from
    /\ cpc' = [cpc EXCEPT ![c] = to]
    /\ UNCHANGED <<debug_option, agx_debug, internal, skip_internal, dumps>>

ParPasses(c) == ParOwnStep(c, "passes", "optimize")

ParOptimize(c) == ParOwnStep(c, "optimize", "dump")

\* skip_internal is computed from agx_debug and the shader is printed when
\* the "shaders" flag is set.
ParDumpNir(c) ==
    /\ cpc[c] = "dump"
    /\ LET skip == internal[c] /\ ~("internal" \in agx_debug) IN
       /\ skip_internal' = [skip_internal EXCEPT ![c] = skip]
       /\ dumps' = IF "shaders" \in agx_debug /\ ~skip
                   THEN [dumps EXCEPT ![c] = Append(@, "nir")]
                   ELSE dumps
    /\ cpc' = [cpc EXCEPT ![c] = "select"]
    /\ UNCHANGED <<debug_option, agx_debug, internal>>

ParSelect(c) == ParOwnStep(c, "select", "print")

\* A dump that is printed when the given flag is set in agx_debug and the
\* shader is not a skipped internal one.
ParDump(c, from, to, flag, what) ==
    /\ cpc[c] = from
    /\ dumps' = IF flag \in agx_debug /\ ~skip_internal[c]
                THEN [dumps EXCEPT ![c] = Append(@, what)]
                ELSE dumps
    /\ cpc' = [cpc EXCEPT ![c] = to]
    /\ UNCHANGED <<debug_option, agx_debug, internal, skip_internal>>

ParPrint(c) == ParDump(c, "print", "ra", "shaders", "air")

ParRA(c) == ParOwnStep(c, "ra", "print_ra")

ParPrintRA(c) == ParDump(c, "print_ra", "pack", "shaders", "air_ra")

ParPack(c) == ParOwnStep(c, "pack", "stats")

ParStats(c) == ParDump(c, "stats", "free", "shaderdb", "stats")

ParFree(c) == ParOwnStep(c, "free", "done")

NextPar ==
    \/ \E c \in Comps : ParEntry(c) /\ UNCHANGED <<vars, memvars>>
    \/ \E c \in Comps : ParPasses(c) /\ UNCHANGED <<vars, memvars>>
    \/ \E c \in Comps : ParOptimize(c) /\ UNCHANGED <<vars, memvars>>
    \/ \E c \in Comps : ParDumpNir(c) /\ UNCHANGED <<vars, memvars>>
    \/ \E c \in Comps : ParSelect(c) /\ UNCHANGED <<vars, memvars>>
    \/ \E c \in Comps : ParPrint(c) /\ UNCHANGED <<vars, memvars>>
    \/ \E c \in Comps : ParRA(c) /\ UNCHANGED <<vars, memvars>>
    \/ \E c \in Comps : ParPrintRA(c) /\ UNCHANGED <<vars, memvars>>
    \/ \E c \in Comps : ParPack(c) /\ UNCHANGED <<vars, memvars>>
    \/ \E c \in Comps : ParStats(c) /\ UNCHANGED <<vars, memvars>>
    \/ \E c \in Comps : ParFree(c) /\ UNCHANGED <<vars, memvars>>

SpecPar == InitPar /\ [][NextPar]_<<vars, parvars, memvars>>

\* C13: of two compilations in parallel, no step of one writes a memory
\* location that the other, still unfinished, compilation reads or writes
\* in the course of its run; in particular agx_debug is not written.
C13_NoSharedMutableState ==
    [][\A a \in Comps :
          cpc'[a] # cpc[a] =>
             \A b \in Comps \ {a} :
                cpc[b] # "done" =>
                   Writes(a, cpc[a]) \cap Footprint(b) = {}]_parvars

\* ------------------------------------------------- the device memory pool

\* The base memories vn_device_memory_simple_alloc may create, and the
\* suballocations vn_device_memory_pool_alloc may return, in one run.
MaxMems == 3

MaxSubs == 3

\* pool_size and pool_align of vn_device_memory_pool_alloc.
pool_size == 16777216

pool_align == 4096

\* The threads that call into the driver.
Threads == {1, 2}

\* The sizes asked of vn_device_memory_pool_alloc (assert(size <= pool_size)).
Sizes == {1, 65536, pool_size - pool_align, pool_size}

\* The handle types passed to vn_GetMemoryFdPropertiesKHR.
HandleTypes == {"DMA_BUF", "OPAQUE_FD"}

align64(value, alignment) ==
    ((value + alignment - 1) \div alignment) * alignment

\* vn_renderer_bo_ref / vn_renderer_bo_unref on a reference count: unref
\* reports whether it dropped the last reference. A count below zero
\* records an unref of a BO that was already destroyed.
vn_renderer_bo_ref(refs) == refs + 1

vn_renderer_bo_unref(refs) ==
    [refs |-> refs - 1, destroyed |-> refs - 1 = 0]

\* A thread that is not inside a call; result, fd_bo and written are what
\* its last call left behind.
Idle(result, fd_bo, written) ==
    [pc |-> "idle", size |-> 0, mem |-> 0, destroyed |-> FALSE, base |-> 0,
     result |-> result, fd_bo |-> fd_bo, written |-> written]

InitMem ==
    /\ pool = [memory |-> 0, used |-> 0]
    /\ mtx = 0
    /\ memory = <<>>
    /\ bo = <<>>
    /\ subs = <<>>
    /\ th = [t \in Threads |-> Idle("none", 0, FALSE)]
    /\ CompileUnused
    /\ ParUnused

\* vn_device_memory_pool_alloc up to mtx_lock: the thread holds the mutex.
PoolAllocLock(t, size) ==
    /\ th[t].pc = "idle"
    /\ Len(subs) < MaxSubs
    /\ size <= pool_size
    /\ mtx = 0
    /\ mtx' = t
    /\ th' = [th EXCEPT ![t] = [Idle("none", 0, FALSE) EXCEPT
                                   !.pc = "locked", !.size = size]]
    /\ UNCHANGED <<pool, memory, bo, subs>>

\* if (!pool->memory || pool->used + size > pool_size)
NeedsGrow(t) == pool.memory = 0 \/ pool.used + th[t].size > pool_size

\* The end of vn_device_memory_pool_grow_locked: the new memory becomes the
\* pool's memory.
GrowDone(t) ==
    /\ pool' = [memory |-> th[t].mem, used |-> 0]
    /\ th' = [th EXCEPT ![t].pc = "take"]

\* vn_device_memory_pool_grow_locked: vn_device_memory_simple_alloc
\* succeeds; the new memory's BO holds one reference.
GrowAlloc(t) ==
    /\ th[t].pc = "locked"
    /\ NeedsGrow(t)
    /\ Len(memory) < MaxMems
    /\ LET id == Len(memory) + 1 IN
       /\ memory' = Append(memory, [base_bo |-> id, frees |-> 0])
       /\ bo' = Append(bo, 1)
       /\ IF pool.memory # 0
          THEN /\ th' = [th EXCEPT ![t].pc = "grow_unref", ![t].mem = id]
               /\ pool' = pool
          ELSE /\ pool' = [memory |-> id, used |-> 0]
               /\ th' = [th EXCEPT ![t].pc = "take", ![t].mem = id]
    /\ UNCHANGED <<mtx, subs>>

\* vn_device_memory_simple_alloc fails: the result is returned through
\* vn_device_memory_pool_alloc, which unlocks the mutex.
GrowFail(t) ==
    /\ th[t].pc = "locked"
    /\ NeedsGrow(t)
    /\ mtx' = 0
    /\ th' = [th EXCEPT ![t] = Idle("VK_ERROR_OUT_OF_DEVICE_MEMORY", 0, FALSE)]
    /\ UNCHANGED <<pool, memory, bo, subs>>

\* bo_destroyed = vn_renderer_bo_unref(pool->memory->base_bo);
GrowUnref(t) ==
    /\ th[t].pc = "grow_unref"
    /\ LET b == memory[pool.memory].base_bo
           r == vn_renderer_bo_unref(bo[b])
       IN
       /\ bo' = [bo EXCEPT ![b] = r.refs]
       /\ th' = [th EXCEPT ![t].pc = "grow_null", ![t].destroyed = r.destroyed]
    /\ UNCHANGED <<pool, mtx, memory, subs>>

\* pool->memory->base_bo = NULL; without bo_destroyed the function ends.
GrowClear(t) ==
    /\ th[t].pc = "grow_null"
    /\ memory' = [memory EXCEPT ![pool.memory].base_bo = 0]
    /\ IF th[t].destroyed
       THEN /\ th' = [th EXCEPT ![t].pc = "grow_free"]
            /\ pool' = pool
       ELSE GrowDone(t)
    /\ UNCHANGED <<mtx, bo, subs>>

\* vn_device_memory_simple_free on the memory and BO tables: the BO is
\* unreferenced if mem->base_bo is set, and the memory is freed.
vn_device_memory_simple_free(m, mems, bos) ==
    LET b == mems[m].base_bo IN
    [memory |-> [mems EXCEPT ![m].frees = @ + 1],
     bo |-> IF b # 0
            THEN [bos EXCEPT ![b] = vn_renderer_bo_unref(bos[b]).refs]
            ELSE bos]

\* if (bo_destroyed) vn_device_memory_simple_free(dev, pool->memory);
GrowFree(t) ==
    /\ th[t].pc = "grow_free"
    /\ LET r == vn_device_memory_simple_free(pool.memory, memory, bo) IN
       /\ memory' = r.memory
       /\ bo' = r.bo
    /\ GrowDone(t)
    /\ UNCHANGED <<mtx, subs>>

\* vn_device_memory_pool_alloc carving the suballocation without rounding
\* the size up to pool_align.
PoolAllocTakeUnaligned(t) ==
    /\ \/ th[t].pc = "locked" /\ ~NeedsGrow(t)
       \/ th[t].pc = "take"
    /\ LET base_mem == pool.memory
           base_bo == memory[base_mem].base_bo
       IN
       /\ bo' = [bo EXCEPT ![base_bo] = vn_renderer_bo_ref(@)]
       /\ subs' = Append(subs, [base_memory |-> base_mem, base_bo |-> base_bo,
                                base_offset |-> pool.used,
                                size |-> th[t].size, live |-> TRUE])
    /\ pool' = [pool EXCEPT !.used = @ + th[t].size]
    /\ mtx' = 0
    /\ th' = [th EXCEPT ![t] = Idle("VK_SUCCESS", 0, FALSE)]
    /\ UNCHANGED memory

\* The rest of vn_device_memory_pool_alloc: the suballocation is carved
\* from pool->memory with a reference on its BO, pool->used advances by
\* the aligned size, the mutex is unlocked.
PoolAllocTake(t) ==
    /\ \/ th[t].pc = "locked" /\ ~NeedsGrow(t)
       \/ th[t].pc = "take"
    /\ LET base_mem == pool.memory
           base_bo == memory[base_mem].base_bo
       IN
       /\ bo' = [bo EXCEPT ![base_bo] = vn_renderer_bo_ref(@)]
       /\ subs' = Append(subs, [base_memory |-> base_mem, base_bo |-> base_bo,
                                base_offset |-> pool.used,
                                size |-> th[t].size, live |-> TRUE])
    /\ pool' = [pool EXCEPT !.used = @ + align64(th[t].size, pool_align)]
    /\ mtx' = 0
    /\ th' = [th EXCEPT ![t] = Idle("VK_SUCCESS", 0, FALSE)]
    /\ UNCHANGED memory

\* vn_FreeMemory of a suballocated memory, up to the test in
\* vn_device_memory_pool_free: the suballocation's reference is dropped;
\* unless that destroyed the BO the call is over.
FreeMemory(t, i) ==
    /\ th[t].pc = "idle"
    /\ subs[i].live
    /\ subs' = [subs EXCEPT ![i].live = FALSE]
    /\ LET r == vn_renderer_bo_unref(bo[subs[i].base_bo]) IN
       /\ bo' = [bo EXCEPT ![subs[i].base_bo] = r.refs]
       /\ th' = [th EXCEPT ![t] =
                    IF r.destroyed
                    THEN [Idle("none", 0, FALSE) EXCEPT
                             !.pc = "free_base", !.base = subs[i].base_memory]
                    ELSE Idle("none", 0, FALSE)]
    /\ UNCHANGED <<pool, mtx, memory>>

\* vn_device_memory_pool_free: vn_device_memory_simple_free(dev, base_mem)
\* after the last reference went away; the pool mutex is not taken.
FreeBase(t) ==
    /\ th[t].pc = "free_base"
    /\ LET r == vn_device_memory_simple_free(th[t].base, memory, bo) IN
       /\ memory' = r.memory
       /\ bo' = r.bo
    /\ th' = [th EXCEPT ![t] = Idle("none", 0, FALSE)]
    /\ UNCHANGED <<pool, mtx, subs>>

\* vn_GetMemoryFdPropertiesKHR: created says whether
\* vn_renderer_bo_create_dmabuf succeeds, queried whether
\* vn_call_vkGetMemoryResourcePropertiesMESA does. fd_bo counts the
\* references the call holds on the BO it created.
GetMemoryFdProperties(t, handleType, created, queried) ==
    /\ th[t].pc = "idle"
    /\ th' = [th EXCEPT ![t] =
                 IF handleType # "DMA_BUF"
                 THEN Idle("VK_ERROR_INVALID_EXTERNAL_HANDLE", 0, FALSE)
                 ELSE IF ~created
                 THEN Idle("VK_ERROR_OUT_OF_HOST_MEMORY", 0, FALSE)
                 ELSE IF ~queried
                 THEN Idle("VK_ERROR_UNKNOWN", 1, FALSE)
                 ELSE Idle("VK_SUCCESS", vn_renderer_bo_unref(1).refs, TRUE)]
    /\ UNCHANGED <<pool, mtx, memory, bo, subs>>

NextMem ==
    \/ \E t \in Threads, size \in Sizes :
          PoolAllocLock(t, size) /\ UNCHANGED <<vars, parvars>>
    \/ \E t \in Threads : GrowAlloc(t) /\ UNCHANGED <<vars, parvars>>
    \/ \E t \in Threads : GrowFail(t) /\ UNCHANGED <<vars, parvars>>
    \/ \E t \in Threads : GrowUnref(t) /\ UNCHANGED <<vars, parvars>>
    \/ \E t \in Threads : GrowClear(t) /\ UNCHANGED <<vars, parvars>>
    \/ \E t \in Threads : GrowFree(t) /\ UNCHANGED <<vars, parvars>>
    \/ \E t \in Threads : PoolAllocTake(t) /\ UNCHANGED <<vars, parvars>>
    \/ \E t \in Threads, i \in 1..Len(subs) :
          FreeMemory(t, i) /\ UNCHANGED <<vars, parvars>>
    \/ \E t \in Threads : FreeBase(t) /\ UNCHANGED <<vars, parvars>>
    \/ \E t \in Threads, h \in HandleTypes, c \in BOOLEAN, q \in BOOLEAN :
          GetMemoryFdProperties(t, h, c, q) /\ UNCHANGED <<vars, parvars>>

SpecMem == InitMem /\ [][NextMem]_<<vars, parvars, memvars>>

\* The live suballocations that were carved from base memory m.
LiveSubs(m) == {i \in 1..Len(subs) : subs[i].live /\ subs[i].base_memory = m}

\* No thread is inside a call.
Quiescent == \A t \in Threads : th[t].pc = "idle"

\* C15: under every interleaving of pool allocations (growth included) and
\* frees of suballocated memories, no BO is unreferenced after its count
\* reached zero, no base memory is freed twice or while a live
\* suballocation refers to it, and once the calls are over each BO's count
\* is the pool's reference (for the pool's current memory) plus one per
\* live suballocation, and a base memory has been freed exactly when its
\* BO's count is zero.
C15_PoolReferences ==
    \A m \in 1..Len(memory) :
       /\ bo[m] >= 0
       /\ memory[m].frees <= 1
       /\ memory[m].frees > 0 => LiveSubs(m) = {}
       /\ Quiescent =>
             /\ bo[m] = (IF pool.memory = m THEN 1 ELSE 0) + Cardinality(LiveSubs(m))
             /\ memory[m].frees = (IF bo[m] = 0 THEN 1 ELSE 0)

\* The suballocations returned so far are aligned, lie within the pool
\* size, and those of one base memory are pairwise disjoint.
SubsWellPlaced ==
    \A i \in 1..Len(subs) :
       /\ subs[i].base_offset % pool_align = 0
       /\ subs[i].base_offset + subs[i].size <= pool_size
       /\ \A j \in 1..Len(subs) :
             (i # j /\ subs[i].base_memory = subs[j].base_memory) =>
                \/ subs[i].base_offset + subs[i].size <= subs[j].base_offset
                \/ subs[j].base_offset + subs[j].size <= subs[i].base_offset

\* The step in which thread t returns from vn_device_memory_pool_alloc
\* with the error of a failed growth.
FailedGrowth(t) ==
    /\ th[t].pc = "locked"
    /\ th'[t].pc = "idle"
    /\ th'[t].result # "VK_SUCCESS"

\* C16: after every step, each base_offset returned by
\* vn_device_memory_pool_alloc (sizes up to pool_size) is a multiple of
\* 4096, base_offset + size is at most 16 MiB, and the byte ranges of two
\* suballocations of the same base memory are disjoint; a step that
\* returns with a failed growth leaves pool->memory and pool->used as they
\* were and the mutex unlocked.
C16_PoolPlacement ==
    [][/\ SubsWellPlaced'
       /\ \A t \in Threads :
             FailedGrowth(t) => (pool' = pool /\ mtx = t /\ mtx' = 0)]_memvars

\* Two suballocations share a base memory at distinct offsets, a third
\* follows a growth, and a growth of the non-empty pool has failed.
C16_Witness ==
    /\ Len(subs) = 3
    /\ subs[1].base_memory = subs[2].base_memory
    /\ subs[2].base_offset > 0
    /\ subs[3].base_memory # subs[1].base_memory
    /\ \E t \in Threads : th[t].pc = "idle" /\ th[t].result = "VK_ERROR_OUT_OF_DEVICE_MEMORY"
    /\ mtx = 0

\* C17: whenever a thread is back from vn_GetMemoryFdPropertiesKHR it
\* holds no reference on the BO the call created, and after an error
\* return memoryTypeBits has not been written.
C17_NoBoHeldOnReturn ==
    \A t \in Threads :
       th[t].pc = "idle" =>
          /\ th[t].fd_bo = 0
          /\ th[t].result # "VK_SUCCESS" => ~th[t].written

====
